---- MODULE Spec2Model ----
(***************************************************************************)
(* Model of the two benchmark-metric scripts of benchmarking-scripts:      *)
(*   metrics.py          MetricsProcessor            (map-based samples)   *)
(*   extract_metrics.py  SasquatchBenchmarkProcessor (list-based samples)  *)
(* A run parses --metric, extracts (module, value) samples from the        *)
(* benchmark document, looks up the Kafka cluster id, creates the topic    *)
(* if the existence check is not 200, and emits one point per sample.      *)
(* Every blocking I/O call of start() is one step of the model.  The REST  *)
(* backend and the emitter are the environment: their answers are drawn    *)
(* nondeterministically, the backend remembering whether the topic exists. *)
(***************************************************************************)
EXTENDS Integers, Sequences, FiniteSets

\* ---------------------------------------------------------------- bounds
MaxEntries == 3
MaxRuns == 2

\* ------------------------------------------------------------ input space
Variants == {"map", "list"}
ModuleNames == {"modA", "modB"}
NoArg == "<absent>"
PyNone == "<None>"
ArgvChoices == {"mean", NoArg}
FileStates == {"ok", "missing", "malformed"}

Num(v) == [kind |-> "num", v |-> v]
Str(v) == [kind |-> "str", v |-> v]
NonNumeric == [kind |-> "bad", v |-> 0]
StatsChoices ==
  { [m \in {"mean"} |-> Num(1)],
    [m \in {"mean"} |-> Str(2)],
    [m \in {"mean"} |-> NonNumeric],
    [m \in {"max"} |-> Num(2)] }
Entries == [name : ModuleNames, stats : StatsChoices]
Documents == UNION { [1..n -> Entries] : n \in 0..MaxEntries }

\* --------------------------------------------------------- pure helpers
SeqMap(F(_), s) == [i \in 1..Len(s) |-> F(s[i])]

RECURSIVE Filter(_, _)
Filter(s, metric) ==
  IF s = <<>> THEN <<>>
  ELSE IF metric \in DOMAIN Head(s).stats
       THEN <<Head(s)>> \o Filter(Tail(s), metric)
       ELSE Filter(Tail(s), metric)

FloatOk(x) == x.kind \in {"num", "str"}
Float(x) == x.v

Pair(module, metric) == [module |-> module.name, value |-> Float(module.stats[metric])]

RECURSIVE DictPut(_, _)
DictPut(d, p) ==
  IF d = <<>> THEN <<p>>
  ELSE IF Head(d).module = p.module
       THEN <<p>> \o Tail(d)
       ELSE <<Head(d)>> \o DictPut(Tail(d), p)

RECURSIVE DictOf(_)
DictOf(pairs) ==
  IF pairs = <<>> THEN <<>>
  ELSE DictPut(DictOf(SubSeq(pairs, 1, Len(pairs) - 1)), pairs[Len(pairs)])

ListComprehension(modules, metric) ==
  [i \in 1..Len(modules) |-> Pair(modules[i], metric)]

DictComprehension(modules, metric) == DictOf(ListComprehension(modules, metric))

Line(tag, n) == [tag |-> tag, n |-> n]

VARIABLES variant, argv, file, doc, topic_exists, run, prev_call,
          pc, metric, samples, cluster_id, next_sample, stdout, trace, exit_code

vars == <<variant, argv, file, doc, topic_exists, run, prev_call,
          pc, metric, samples, cluster_id, next_sample, stdout, trace, exit_code>>

inputs == <<variant, argv, file, doc>>

Init ==
  /\ variant \in Variants
  /\ argv \in ArgvChoices
  /\ file \in FileStates
  /\ doc \in Documents
  /\ (file # "ok" => doc = <<>>)
  /\ topic_exists \in BOOLEAN
  /\ run = 1
  /\ prev_call = "none"
  /\ pc = "parse_args"
  /\ metric = PyNone
  /\ samples = <<>>
  /\ cluster_id = PyNone
  /\ next_sample = 1
  /\ stdout = <<>>
  /\ trace = <<>>
  /\ exit_code = 0

\* ------------------------------------------------------ argument parsing
\* metrics.py: add_argument("--metric", required=True)
parse_cmdline_args(a) ==
  IF a = NoArg THEN [ok |-> FALSE, metric |-> PyNone]
  ELSE [ok |-> TRUE, metric |-> a]

\* extract_metrics.py: add_argument("--metric") -- optional, default None
parse_cmd_args(a) ==
  [ok |-> TRUE, metric |-> IF a = NoArg THEN PyNone ELSE a]

ParseArgsOf(v, a) == IF v = "map" THEN parse_cmdline_args(a) ELSE parse_cmd_args(a)

\* ------------------------------------------------------------ extraction
\* open() fails, ijson fails, or float() fails on a qualifying entry
ExtractRaisesFileOnly(f, d, m) == f # "ok"

ExtractRaises(f, d, m) ==
  \/ f # "ok"
  \/ \E i \in 1..Len(d) : m \in DOMAIN d[i].stats /\ ~FloatOk(d[i].stats[m])

extract_metric_values_keep_all(d, m) == ListComprehension(Filter(d, m), m)

extract_metric_values(d, m) == DictComprehension(Filter(d, m), m)

collect_metric_values(d, m) == ListComprehension(Filter(d, m), m)

ExtractOf(v, d, m) ==
  IF v = "map" THEN extract_metric_values(d, m) ELSE collect_metric_values(d, m)

\* ------------------------------------------------- run-level control flow
\* except Exception as e: print(e)  -- then start() returns, exit status 0
start_except_reraise(e) == [pc |-> "exit", exit_code |-> 1, out |-> <<>>]

start_except(e) == [pc |-> "exit", exit_code |-> 0, out |-> <<Line(e, 0)>>]

\* an exception outside the try block: traceback on stderr, exit status 1
Uncaught == [pc |-> "exit", exit_code |-> 1, out |-> <<>>]

\* argparse error: usage on stderr, exit status 2
ArgparseExit == [pc |-> "exit", exit_code |-> 2, out |-> <<>>]

Finish(r) ==
  /\ pc' = r.pc
  /\ exit_code' = r.exit_code
  /\ stdout' = stdout \o r.out

\* --------------------------------------------------------- the backend
\* one request as the backend sees it: status is the HTTP status (0 when the
\* transport failed), error is the exception the calling step raised ("" if none)
Req(op, status, error) == [op |-> op, status |-> status, error |-> error]
ConnError(op) == Req(op, 0, "ConnectionError")

ClusterBodies == { <<>>, <<"c1">>, <<"c1", "c2">> }
FirstCluster(data) == data[1]

\* GET /topics/{topic}: 200 if the topic exists, a non-200 status otherwise
TopicGetStatuses == IF topic_exists THEN {200} ELSE {404, 500}
PostStatuses == {200, 201, 500}

check_status_created(status) == status = 201

check_status_not_404(status) == status # 404

check_if_kafka_topic_exists(status) == status = 200

PostRaisesOnly404(status) == status = 404

PostRaises(status) == status \notin {200, 201}

CreateErrorOf(v) ==
  IF v = "map" THEN "Could not create topic!" ELSE "Could not create Kafka topic!"

\* -------------------------------------------------------------- emission
EmitterMillis(module_name, metric_val, error) ==
  [op |-> "emit", status |-> 0, error |-> error,
   module |-> module_name, value |-> metric_val,
   benchmark_type |-> "runtime", benchmark_unit |-> "ms"]

Emitter(module_name, metric_val, error) ==
  [op |-> "emit", status |-> 0, error |-> error,
   module |-> module_name, value |-> metric_val,
   benchmark_type |-> "runtime", benchmark_unit |-> "s"]

SampleAtReversed(s, i) == s[Len(s) + 1 - i]

SampleAt(s, i) == s[i]

\* ================================================================ actions
ParseArgs ==
  /\ pc = "parse_args"
  /\ LET r == ParseArgsOf(variant, argv) IN
       IF r.ok
       THEN /\ metric' = r.metric
            /\ pc' = "extract"
            /\ UNCHANGED <<exit_code, stdout>>
       ELSE /\ Finish(ArgparseExit)
            /\ UNCHANGED metric
  /\ UNCHANGED <<inputs, topic_exists, run, prev_call, samples,
                 cluster_id, next_sample, trace>>

Extract ==
  /\ pc = "extract"
  /\ IF ExtractRaises(file, doc, metric)
     THEN /\ Finish(Uncaught)
          /\ UNCHANGED samples
     ELSE /\ samples' = ExtractOf(variant, doc, metric)
          /\ stdout' = Append(stdout, Line("Found", Len(samples')))
          /\ pc' = "get_cluster"
          /\ UNCHANGED exit_code
  /\ UNCHANGED <<inputs, topic_exists, run, prev_call, metric,
                 cluster_id, next_sample, trace>>

GetClusterId ==
  /\ pc = "get_cluster"
  /\ \/ /\ trace' = Append(trace, ConnError("GET clusters"))
        /\ Finish(start_except("ConnectionError"))
        /\ UNCHANGED cluster_id
     \/ \E data \in ClusterBodies :
          IF data = <<>>
          THEN /\ trace' = Append(trace, Req("GET clusters", 200, "list index out of range"))
               /\ Finish(start_except("list index out of range"))
               /\ UNCHANGED cluster_id
          ELSE /\ trace' = Append(trace, Req("GET clusters", 200, ""))
               /\ cluster_id' = FirstCluster(data)
               /\ stdout' = Append(stdout, Line("Kafka cluster ID", 0))
               /\ pc' = "check_topic"
               /\ UNCHANGED exit_code
  /\ UNCHANGED <<inputs, topic_exists, run, prev_call, metric,
                 samples, next_sample>>

CheckTopic ==
  /\ pc = "check_topic"
  /\ \/ /\ trace' = Append(trace, ConnError("GET topic"))
        /\ Finish(start_except("ConnectionError"))
     \/ \E status \in TopicGetStatuses :
          /\ trace' = Append(trace, Req("GET topic", status, ""))
          /\ pc' = IF check_if_kafka_topic_exists(status)
                   THEN "submit" ELSE "post_topic"
          /\ UNCHANGED <<exit_code, stdout>>
  /\ UNCHANGED <<inputs, topic_exists, run, prev_call, metric,
                 samples, cluster_id, next_sample>>

PostTopic ==
  /\ pc = "post_topic"
  /\ \/ /\ trace' = Append(trace, ConnError("POST topic"))
        /\ Finish(start_except("ConnectionError"))
        /\ UNCHANGED topic_exists
     \/ \E status \in PostStatuses :
          /\ topic_exists' = (topic_exists \/ status \in {200, 201})
          /\ IF PostRaises(status)
             THEN /\ trace' = Append(trace, Req("POST topic", status, CreateErrorOf(variant)))
                  /\ Finish(start_except(CreateErrorOf(variant)))
             ELSE /\ trace' = Append(trace, Req("POST topic", status, ""))
                  /\ pc' = "submit"
                  /\ stdout' = IF variant = "map"
                               THEN Append(stdout, Line("created", 0))
                               ELSE stdout
                  /\ UNCHANGED exit_code
  /\ UNCHANGED <<inputs, run, prev_call, metric, samples,
                 cluster_id, next_sample>>

Emit ==
  /\ pc = "submit"
  /\ next_sample <= Len(samples)
  /\ \E error \in {"", "EmitError"} :
       LET s == SampleAt(samples, next_sample) IN
         /\ trace' = Append(trace, Emitter(s.module, s.value, error))
         /\ IF error # ""
            THEN /\ Finish(start_except("EmitError"))
                 /\ UNCHANGED next_sample
            ELSE /\ next_sample' = next_sample + 1
                 /\ UNCHANGED <<pc, exit_code, stdout>>
  /\ UNCHANGED <<inputs, topic_exists, run, prev_call, metric,
                 samples, cluster_id>>

Return ==
  /\ pc = "submit"
  /\ next_sample > Len(samples)
  /\ pc' = "exit"
  /\ exit_code' = 0
  /\ UNCHANGED <<inputs, topic_exists, run, prev_call, metric,
                 samples, cluster_id, next_sample, stdout, trace>>

\* how the create_kafka_topic call of a finished run ended: "none" if it
\* was not reached, "found" if the existence check returned, "created" if the
\* POST was accepted, "failed" if it raised
CallOutcome(t) ==
  IF \A i \in 1..Len(t) : t[i].op \notin {"GET topic", "POST topic"} THEN "none"
  ELSE IF \E i \in 1..Len(t) : t[i].op = "POST topic" /\ t[i].error = "" THEN "created"
  ELSE IF \E i \in 1..Len(t) : t[i].op = "GET topic" /\ t[i].status = 200 THEN "found"
  ELSE "failed"

\* the script is invoked again against the same backend
Rerun ==
  /\ pc = "exit"
  /\ run < MaxRuns
  /\ run' = run + 1
  /\ prev_call' = IF CallOutcome(trace) = "none" THEN prev_call ELSE CallOutcome(trace)
  /\ pc' = "parse_args"
  /\ metric' = PyNone
  /\ samples' = <<>>
  /\ cluster_id' = PyNone
  /\ next_sample' = 1
  /\ stdout' = <<>>
  /\ trace' = <<>>
  /\ exit_code' = 0
  /\ UNCHANGED <<inputs, topic_exists>>

Next ==
  \/ ParseArgs
  \/ Extract
  \/ GetClusterId
  \/ CheckTopic
  \/ PostTopic
  \/ Emit
  \/ Return
  \/ Rerun

Spec == Init /\ [][Next]_vars

\* ================================================== vocabulary of the claims
IsEmit(ev) == ev.op = "emit"
IsRequest(ev) == ev.op # "emit"
Emits == SelectSeq(trace, IsEmit)
Requests == SelectSeq(trace, IsRequest)
Qualifying == { i \in 1..Len(doc) : metric \in DOMAIN doc[i].stats }
Extracted == \E i \in 1..Len(stdout) : stdout[i].tag = "Found"
FoundCount == (CHOOSE i \in 1..Len(stdout) : stdout[i].tag = "Found")
LastLine == stdout[Len(stdout)]
Failed == \E i \in 1..Len(trace) : trace[i].error # ""

\* C1: after extraction the printed sample count equals the number of
\* document entries whose stats contain the requested metric, in both
\* variants, duplicates of a module name included.
C1_CountEqualsQualifying ==
  Extracted =>
    /\ stdout[FoundCount].n = Cardinality(Qualifying)
    /\ Len(samples) = Cardinality(Qualifying)

\* C2: once extraction has succeeded, every failure of a publish-stage step
\* ends the run at once with the error printed and exit status 0; a run that
\* extracted never ends with a nonzero status.
C2_PublishFailuresSwallowed ==
  /\ (Extracted /\ pc = "exit") => exit_code = 0
  /\ \A i \in 1..Len(trace) :
       trace[i].error # "" =>
         /\ i = Len(trace)
         /\ pc = "exit"
         /\ exit_code = 0
         /\ LastLine = Line(trace[i].error, 0)

C2_Witness ==
  /\ pc = "exit"
  /\ exit_code = 0
  /\ Len(Emits) = 2
  /\ Emits[2].error = "EmitError"
  /\ LastLine.tag = "EmitError"

\* C3: when the cluster listing errors or is empty, or the create POST
\* answers a status other than 200/201, the run is over with exit status 0,
\* the error is the last line printed, and no emission was attempted.
ProvisioningFailed ==
  \E i \in 1..Len(trace) :
    \/ trace[i].op = "GET clusters" /\ trace[i].error # ""
    \/ trace[i].op = "POST topic" /\ trace[i].status \notin {0, 200, 201}

C3_ProvisioningFailureNoEmission ==
  ProvisioningFailed =>
    /\ pc = "exit"
    /\ exit_code = 0
    /\ LastLine.tag \in {"ConnectionError", "list index out of range",
                         "Could not create topic!", "Could not create Kafka topic!"}
    /\ Emits = <<>>

C3_Witness ==
  /\ ProvisioningFailed
  /\ Len(samples) = 2
  /\ Len(Requests) = 3
  /\ Requests[3].status = 500
  /\ pc = "exit"

\* C4: when the previous call of create_kafka_topic found the topic absent
\* and its POST answered 200 or 201, the next call sees the existence check
\* answer 200 and issues no POST: one create POST over the two calls.
PrevCallCreated == prev_call = "created"

C4_CreateIdempotent ==
  PrevCallCreated =>
    \A i \in 1..Len(trace) :
      /\ trace[i].op # "POST topic"
      /\ (trace[i].op = "GET topic" /\ trace[i].error = "") => trace[i].status = 200

C4_Witness ==
  /\ PrevCallCreated
  /\ pc = "exit"
  /\ Len(Requests) = 2
  /\ Requests[2] = Req("GET topic", 200, "")
  /\ Len(Emits) = 1

\* C5: a missing file, a malformed document or a non-numeric value of the
\* requested stat in a qualifying entry ends the run with a nonzero exit
\* status, nothing printed by the handler, no request and no emission.
ExtractionMustFail ==
  \/ file \in {"missing", "malformed"}
  \/ \E i \in Qualifying : doc[i].stats[metric].kind = "bad"

C5_ExtractionFailureFatal ==
  (pc \notin {"parse_args", "extract"} /\ ExtractionMustFail) =>
    /\ pc = "exit"
    /\ exit_code # 0
    /\ stdout = <<>>
    /\ trace = <<>>
    /\ samples = <<>>

C5_Witness ==
  /\ pc = "exit"
  /\ exit_code = 1
  /\ file = "ok"
  /\ Len(doc) = 3
  /\ doc[1].stats = [m \in {"mean"} |-> Num(1)]
  /\ doc[3].stats = [m \in {"mean"} |-> NonNumeric]
  /\ metric = "mean"

\* C6: in both variants a run started without --metric exits nonzero before
\* any extraction, request or emission.
C6_MissingMetricFails ==
  (argv = NoArg /\ pc = "exit") =>
    /\ exit_code # 0
    /\ ~Extracted
    /\ trace = <<>>

\* C7: in a run that ended with provisioning done and no emission failed,
\* the emissions are one per extracted sample, in order, with the sample's
\* module and value, type "runtime" and unit "s"; each comes from an entry
\* whose stats hold the metric; with no such entry nothing is emitted and no
\* error is printed.
CleanRun == Extracted /\ pc = "exit" /\ exit_code = 0 /\ ~Failed

C7_OneEmissionPerSample ==
  CleanRun =>
    /\ Len(Emits) = Len(samples)
    /\ \A i \in 1..Len(Emits) :
         /\ Emits[i].module = samples[i].module
         /\ Emits[i].value = samples[i].value
         /\ Emits[i].benchmark_type = "runtime"
         /\ Emits[i].benchmark_unit = "s"
         /\ \E j \in Qualifying :
              /\ doc[j].name = Emits[i].module
              /\ doc[j].stats[metric].v = Emits[i].value
    /\ \A j \in Qualifying : \E i \in 1..Len(Emits) : Emits[i].module = doc[j].name
    /\ (Qualifying = {} => Emits = <<>> /\ LastLine.tag \in {"Kafka cluster ID", "created"})

C7_Witness ==
  /\ CleanRun
  /\ Len(doc) = 3
  /\ Qualifying = {1, 3}
  /\ Len(Emits) = 2
  /\ Emits[1].module # Emits[2].module

\* C8: with several qualifying entries of one module name, metrics.py keeps
\* one sample per name holding the value of the last such entry, and
\* extract_metrics.py keeps one sample per entry in document order and, in
\* a run without failure, emits every one of them.
LastOf(n) == CHOOSE j \in Qualifying :
  /\ doc[j].name = n
  /\ \A k \in Qualifying : doc[k].name = n => k <= j

C8_DuplicatePolicy ==
  Extracted =>
    /\ variant = "map" =>
         /\ \A i \in 1..Len(samples) : \E j \in Qualifying : doc[j].name = samples[i].module
         /\ \A j \in Qualifying :
              \E i \in 1..Len(samples) :
                /\ samples[i].module = doc[j].name
                /\ samples[i].value = doc[LastOf(doc[j].name)].stats[metric].v
                /\ \A k \in 1..Len(samples) : samples[k].module = doc[j].name => k = i
    /\ variant = "list" =>
         /\ \E f \in [1..Len(samples) -> 1..Len(doc)] :
              /\ \A i \in 1..Len(samples) : \A k \in 1..Len(samples) : i < k => f[i] < f[k]
              /\ { f[i] : i \in 1..Len(samples) } = Qualifying
              /\ \A i \in 1..Len(samples) :
                   /\ samples[i].module = doc[f[i]].name
                   /\ samples[i].value = doc[f[i]].stats[metric].v
         /\ CleanRun => Len(Emits) = Cardinality(Qualifying)

C8_Witness ==
  /\ variant = "map"
  /\ Extracted
  /\ Qualifying = {1, 2, 3}
  /\ doc[1].name = "modA" /\ doc[2].name = "modB" /\ doc[3].name = "modA"
  /\ doc[1].stats[metric].v = 1
  /\ doc[3].stats[metric].v = 2
  /\ samples = << [module |-> "modA", value |-> 2], [module |-> "modB", value |-> doc[2].stats[metric].v] >>

\* C9: the requests of a run that extracted are one cluster-listing GET,
\* then one topic GET only if a cluster id was obtained, then one create POST
\* exactly when the topic GET answered a status other than 200; emissions
\* come after every request and nothing is sent twice.
C9_RequestOrder ==
  Extracted =>
    /\ Len(Requests) <= 3
    /\ Len(Requests) >= 1 => Requests[1].op = "GET clusters"
    /\ Len(Requests) >= 2 => Requests[2].op = "GET topic" /\ Requests[1].error = ""
    /\ Len(Requests) >= 3 =>
         /\ Requests[3].op = "POST topic"
         /\ Requests[2].error = ""
         /\ Requests[2].status # 200
    /\ \A i \in 1..Len(trace) : \A j \in 1..Len(trace) :
         (i < j /\ trace[i].op = "emit") => trace[j].op = "emit"
    /\ pc \in {"submit", "exit"} =>
         /\ Len(Requests) >= 1
         /\ Requests[1].error = "" => Len(Requests) >= 2
         /\ (Len(Requests) >= 2 /\ Requests[2].error = "" /\ Requests[2].status # 200)
              => Len(Requests) = 3

C9_Witness ==
  /\ pc = "exit"
  /\ Len(Requests) = 3
  /\ Requests[2].status = 500
  /\ Requests[3].status = 201
  /\ Len(Emits) = 2
  /\ trace[5].op = "emit"

\* C10: when the k-th emission fails, the run is over with exit status 0,
\* the k-1 samples before it were emitted in iteration order, nothing after
\* it was attempted; what was sent and the created topic stay.
C10_AtFailure ==
  \A k \in 1..Len(Emits) :
    Emits[k].error # "" =>
      /\ pc = "exit"
      /\ exit_code = 0
      /\ Len(Emits) = k
      /\ k <= Len(samples)
      /\ \A i \in 1..k :
           /\ Emits[i].module = samples[i].module
           /\ Emits[i].value = samples[i].value
           /\ i < k => Emits[i].error = ""

C10_NotUndone ==
  /\ topic_exists => topic_exists'
  /\ run' = run => /\ Len(trace') >= Len(trace)
                   /\ SubSeq(trace', 1, Len(trace)) = trace

C10_PartialPublication == [](C10_AtFailure) /\ [][C10_NotUndone]_vars

C10_Witness ==
  /\ pc = "exit"
  /\ exit_code = 0
  /\ Len(samples) = 3
  /\ Len(Emits) = 2
  /\ Emits[2].error # ""
  /\ samples[1].value # samples[3].value
  /\ \E i \in 1..Len(trace) : trace[i].op = "POST topic" /\ trace[i].status = 201

====
